---- MODULE Spec2Model ----
(***************************************************************************)
(* hypersdk Python SDK: the remote job client (client.py), its error       *)
(* classification, the data model (models.py), and the example scripts:    *)
(* the job-monitoring loops (monitor_jobs.py, simple_export.py,            *)
(* incremental_backup.py), the carbon-aware backup scripts                 *)
(* (carbon_aware_backup.py, carbon_quick_start.py) and the cost comparison *)
(* (cloud_cost_comparison.py).                                             *)
(*                                                                         *)
(* Python values are modelled as follows.  A JSON object / dict is a      *)
(* record (a function from key strings); d.get(k, dflt) is Get(d, k,       *)
(* dflt).  An Optional value is a set with at most one element ({} is      *)
(* None).  A list is a sequence.  Formatted messages are tuples            *)
(* <<prefix, detail>>.                                                     *)
(***************************************************************************)
EXTENDS Integers, Sequences, FiniteSets, TLC

VARIABLES
    \* ---- job-monitoring session (one script run) ----
    loop,            \* which script's loop runs: monitor_job / export_vm / incremental_backup
    analysis_bound,  \* incremental_backup.py: step 2 assigned `analysis` (it did not raise)
    pc,              \* position of the loop: "poll" (inside try, at get_job), "sleep", "done"
    job,             \* local copy of the job: {} before the first successful poll, else {response}
    prevJob,         \* the local copy that the latest successful poll replaced (history)
    polled,          \* what the latest successful get_job call returned ({} before it)
    polls,           \* number of get_job calls issued
    lastPoll,        \* "none" | "ok" | "fail": how the latest get_job call ended
    emitted,         \* TRUE iff the latest get_job call printed a status/progress line
    events,          \* number of status/progress lines printed for poll responses
    errorsReported,  \* number of poll errors printed
    last_percent,    \* incremental_backup.py: last_percent
    last_phase,      \* simple_export.py: last_phase
    seenTerminal,    \* some poll returned completed / failed / cancelled (history)
    scriptPos,       \* how far the responses so far follow Script; -1 once they left it (history)
    cancels,         \* number of cancel_job calls issued by the loop
    endedBy,         \* "none" | "terminal" | "poll_error" | "interrupt"
    outcome,         \* how the function ended: return code or propagated exception
    \* ---- multi-job monitor (one run of monitor_all_jobs) ----
    multi_pc,        \* "fetch" (inside try, at list_jobs), "sleep", "done"
    ticks,           \* number of loop iterations started
    fetched,         \* the jobs the latest list_jobs call returned ({} if it raised)
    rendered,        \* what the latest iteration printed, one entry per job
    multi_outcome,   \* how monitor_all_jobs ended
    \* ---- remote job client (one HyperSDK instance) ----
    op,              \* the client operation called last ("none" before the first call)
    http,            \* what the transport produced for that call
    requests_version,\* "<2.27" | ">=2.27": whether requests' JSONDecodeError is a RequestException
    result,          \* what the operation returned or raised
    args,            \* the arguments of that call
    sent,            \* the HTTP requests that call issued, in order
    token,           \* self._token: {} is None
    headers,         \* the headers argument of the latest request
    job_def_after,   \* the JobDefinition handed to that call, as the caller holds it
                     \* afterwards ({} if the call takes none)
    \* ---- data model (models.py): one encode / decode at a time ----
    codec,           \* "none" | "round_trip" | "decode_job": the conversion applied last
    definition,      \* the JobDefinition that was encoded ({} if none)
    wire,            \* the dict that was produced by to_dict or handed to from_dict
    decoded,         \* what from_dict returned or raised
    report,          \* what monitor_job printed and returned for that decoded poll
    \* ---- carbon-aware backup scripts (one script run) ----
    script,          \* which script runs: carbon_aware_backup / carbon_quick_start
    carbon_pc,       \* "check" (before get_carbon_status), "submit", "done"
    carbon_status,   \* the CarbonStatus obtained ({} before)
    carbon_estimate, \* the CarbonEstimate obtained ({} before)
    \* ---- cloud_cost_comparison.py (one run of compare_cloud_costs) ----
    cost_pc,         \* "size", "compare", "project", "done"
    duration_days,   \* the --duration argument
    comparison,      \* what compare_providers returned ({} before)
    projection,      \* what project_yearly_cost returned ({} before)
    quarters,        \* the quarterly sums printed ({} if none)
    projection_error,\* the exception the projection step caught ({} if none)
    cost_outcome     \* how compare_cloud_costs ended

monitorVars == <<loop, analysis_bound, pc, job, prevJob, polled, polls, lastPoll, emitted, events, errorsReported,
                 last_percent, last_phase, seenTerminal, scriptPos, cancels, endedBy, outcome>>
multiVars == <<multi_pc, ticks, fetched, rendered, multi_outcome>>
clientVars == <<op, http, requests_version, result, args, sent, token, headers, job_def_after>>
modelVars == <<codec, definition, wire, decoded, report>>
carbonVars == <<script, carbon_pc, carbon_status, carbon_estimate>>
costVars == <<cost_pc, duration_days, comparison, projection, quarters, projection_error,
              cost_outcome>>
vars == <<monitorVars, multiVars, clientVars, modelVars, carbonVars, costVars>>

(***************************************************************************)
(* Bounds                                                                  *)
(***************************************************************************)
MaxPolls == 5

(***************************************************************************)
(* Python helpers                                                          *)
(***************************************************************************)
\* dict.get(key, default)
Get(d, k, dflt) == IF k \in DOMAIN d THEN d[k] ELSE dflt

\* The value of a non-empty Optional
The(S) == CHOOSE x \in S : TRUE

\* {} and one conditional item of a dict under construction
EmptyDict == [k \in {} |-> k]
OptItem(k, S) == IF S = {} THEN EmptyDict ELSE k :> The(S)

\* dict.get(key): the value, or None
OptGet(d, k) == IF k \in DOMAIN d THEN {d[k]} ELSE {}

(***************************************************************************)
(* Python numbers                                                          *)
(*                                                                         *)
(* An int is unbounded: a non-negative one is written in groups of three   *)
(* decimal digits, most significant first, so 14,400,000,000,000 is        *)
(* <<14, 400, 0, 0, 0>>.  A non-negative float is an IEEE 754 double       *)
(* mant * 2^exp whose mant is an int of at most 53 bits.                   *)
(***************************************************************************)
RECURSIVE Groups(_)
Groups(n) == IF n < 1000 THEN <<n>> ELSE Append(Groups(n \div 1000), n % 1000)

RECURSIVE Normalise(_)
Normalise(x) == IF Len(x) > 1 /\ x[1] = 0 THEN Normalise(Tail(x)) ELSE x

RECURSIVE MulFrom(_, _, _, _)
MulFrom(x, k, i, carry) ==
    IF i = 0 THEN Groups(carry)
    ELSE LET v == x[i] * k + carry
         IN  Append(MulFrom(x, k, i - 1, v \div 1000), v % 1000)

\* x * k for an int x and a machine-sized k (MulFrom(x, 1, Len(x), 1) is x + 1)
MulSmall(x, k) == Normalise(MulFrom(x, k, Len(x), 0))

RECURSIVE DivFrom(_, _, _, _)
DivFrom(x, d, i, rem) ==
    IF i > Len(x) THEN <<>>
    ELSE LET v == rem * 1000 + x[i]
         IN  <<v \div d>> \o DivFrom(x, d, i + 1, v % d)

\* x // d for a machine-sized d (x % d, for a d that divides 1000, is the
\* last group's)
DivSmall(x, d) == Normalise(DivFrom(x, d, 1, 0))

\* x * 2^n and x // 2^n, twenty bits at a time
RECURSIVE ShiftLeft(_, _)
ShiftLeft(x, n) ==
    IF n <= 20 THEN MulSmall(x, 2 ^ n) ELSE ShiftLeft(MulSmall(x, 2 ^ 20), n - 20)

RECURSIVE ShiftRight(_, _)
ShiftRight(x, n) ==
    IF n <= 20 THEN DivSmall(x, 2 ^ n) ELSE ShiftRight(DivSmall(x, 2 ^ 20), n - 20)

\* x < 2^53 = 9,007,199,254,740,992
Fits53(x) ==
    LET y == <<9, 7, 199, 254, 740, 992>>
    IN  \/ Len(x) < Len(y)
        \/ /\ Len(x) = Len(y)
           /\ \E i \in 1..Len(x) : x[i] < y[i] /\ \A j \in 1..(i - 1) : x[j] = y[j]

\* Halve x until it has at most 53 bits, keeping the last bit dropped (round)
\* and whether anything was dropped before it (sticky)
RECURSIVE Narrow(_, _, _, _)
Narrow(x, exp, round, sticky) ==
    IF Fits53(x) THEN [mant |-> x, exp |-> exp, round |-> round, sticky |-> sticky]
    ELSE Narrow(DivSmall(x, 2), exp + 1, x[Len(x)] % 2 = 1, sticky \/ round)

\* The double nearest to x * 2^exp (+ a little, if inexact), ties to even
RoundToDouble(x, exp, inexact) ==
    LET n == Narrow(x, exp, FALSE, inexact)
        up == n.round /\ (n.sticky \/ n.mant[Len(n.mant)] % 2 = 1)
    IN  [mant |-> IF up THEN Normalise(MulFrom(n.mant, 1, Len(n.mant), 1)) ELSE n.mant,
         exp |-> n.exp]

\* float("k/100" written as a decimal literal), k >= 0
FloatOfHundredths(k) ==
    LET n == ShiftLeft(Groups(k), 60)
    IN  RoundToDouble(DivSmall(n, 100), -60, n[Len(n)] % 100 # 0)

\* int(f): truncation
IntOfFloat(f) ==
    IF f.exp >= 0 THEN ShiftLeft(f.mant, f.exp) ELSE ShiftRight(f.mant, -f.exp)

(***************************************************************************)
(* Data model (models.py): the values                                      *)
(***************************************************************************)
MaxPopulated == 2

Statuses == {"pending", "running", "completed", "failed", "cancelled"}
ExportFormat == {"qcow2", "raw", "vmdk", "ova", "ovf"}
ExportMethod == {"ctl", "govc", "ovftool", "web", ""}

VCenterConfig(server, username, password, insecure) ==
    [server |-> server, username |-> username, password |-> password, insecure |-> insecure]

\* ExportOptions: two defaulted fields and one Optional one stand for the sixteen
ExportOptions(libvirt_uri) ==
    [parallel_downloads |-> 4, compress_level |-> 6, libvirt_uri |-> libvirt_uri]

\* JobDefinition(vm_path): every other field at its dataclass default
JobDefinition(vm_path) ==
    [vm_path |-> vm_path, name |-> {}, id |-> {}, output_path |-> {}, output_dir |-> {},
     vcenter_url |-> {}, vcenter |-> {}, username |-> {}, datacenter |-> {},
     format |-> "ovf", export_method |-> "", method |-> {},
     compress |-> FALSE, thin |-> FALSE, insecure |-> FALSE,
     options |-> {}, created_at |-> {}]

OptionalFields ==
    {"name", "id", "output_path", "output_dir", "vcenter_url", "vcenter", "username",
     "datacenter", "method", "options", "created_at"}

VmPath == "/dc/vm/web01"

\* A value for each Optional field of a JobDefinition (a datetime is its timestamp)
Sample(f) ==
    CASE f = "vcenter"    -> VCenterConfig("vc.example.com", "admin", "secret", TRUE)
      [] f = "options"    -> ExportOptions({})
      [] f = "created_at" -> 1
      [] OTHER            -> f

\* The JobDefinition with exactly the Optional fields S populated
Populated(S, format, export_method, compress, thin, insecure) ==
    [f \in DOMAIN JobDefinition(VmPath) |->
        CASE f \in S             -> {Sample(f)}
          [] f = "format"        -> format
          [] f = "export_method" -> export_method
          [] f = "compress"      -> compress
          [] f = "thin"          -> thin
          [] f = "insecure"      -> insecure
          [] OTHER               -> JobDefinition(VmPath)[f]]

JobDefinitions ==
    { [Populated(S, fmt, em, c, t, i) EXCEPT !.vm_path = v] :
        v \in {VmPath, "/dc/vm/db01"},
        S \in {T \in SUBSET OptionalFields : Cardinality(T) <= MaxPopulated} \cup {OptionalFields},
        fmt \in ExportFormat, em \in ExportMethod,
        c \in BOOLEAN, t \in BOOLEAN, i \in BOOLEAN }

\* Job payloads a server can send: the status and the definition's format are
\* any strings, of the enumerations or not; "format" may be left out
WireProgress == {{}, {[phase |-> "exporting", percent_complete |-> 55, eta |-> "1m"]}}

WireJob(status, format, progress) ==
    ("definition" :> (("vm_path" :> VmPath) @@ OptItem("format", format)))
    @@ ("status" :> status)
    @@ ("updated_at" :> <<"iso", 2, "Z">>)
    @@ OptItem("progress", progress)

\* data.get("result") as received: left out, null or {} (EmptyDict stands for
\* both), a whole result, one without its duration
WireJobs ==
    LET WireResult ==
            [vm_name |-> "web01", output_dir |-> "/exports",
             ovf_path |-> "/exports/web01.ovf",
             files |-> <<"web01.ovf", "web01-disk1.vmdk">>, total_size |-> 2048,
             duration |-> 5, success |-> TRUE]
    IN
    { WireJob(s, f, p) @@ OptItem("result", r) @@ OptItem("error", e) :
        s \in Statuses \cup {"paused"},
        f \in {{}} \cup {{x} : x \in ExportFormat \cup {"vhd"}},
        p \in WireProgress,
        r \in { {}, {EmptyDict}, {WireResult},
                {[k \in DOMAIN WireResult \ {"duration"} |-> WireResult[k]]} },
        e \in {{}, {"disk full"}} }

\* The job sets GET /jobs/query can list: up to MaxJobs jobs, the i-th with
\* the id <<"job", i>>, each in any status, with or without progress
MaxJobs == 2

ListedJobs ==
    UNION { { [i \in 1..n |-> [js[i] EXCEPT !["definition"] = @ @@ ("id" :> <<"job", i>>)]] :
                js \in [1..n -> {WireJob(st, {}, p) : st \in Statuses, p \in WireProgress}] } :
            n \in 0..MaxJobs }

(***************************************************************************)
(* HTTP exchange: what session.request / session.get produce               *)
(***************************************************************************)
JobId == "job-1"

EmptyBody == [kind |-> "empty", data |-> [raw |-> ""]]
TextBody == [kind |-> "text", data |-> [raw |-> "text"]]
JsonBody(d) == [kind |-> "json", data |-> d]

TransportFailures == {"ConnectionError", "Timeout"}

ErrorBodies == {EmptyBody, TextBody, JsonBody([error |-> "boom"]), JsonBody([detail |-> "x"])}

SubmitData ==
    { [accepted |-> a, job_ids |-> ids] : a \in {0, 1}, ids \in {<<>>, <<JobId>>} }
    \cup { [accepted |-> a, job_ids |-> ids, errors |-> es] :
             a \in {0, 1}, ids \in {<<>>, <<JobId>>},
             es \in {<<>>, <<"e1">>, <<"e1", "e2">>} }

CancelData ==
    { [cancelled |-> c, failed |-> f] : c \in SUBSET {JobId}, f \in SUBSET {JobId} }
    \cup { [cancelled |-> c, failed |-> f, errors |-> es] :
             c \in SUBSET {JobId}, f \in SUBSET {JobId}, es \in { [i \in D |-> "already completed"] : D \in SUBSET {JobId} } }

EstimateSavings_ZeroIsFullSavings(current_emissions, best_emissions) ==
    [current_emissions_kg_co2 |-> current_emissions,
     best_emissions_kg_co2 |-> best_emissions,
     savings_kg_co2 |-> current_emissions - best_emissions,
     savings_percent |-> IF current_emissions = 0 THEN 100
                         ELSE ((current_emissions - best_emissions) * 100)
                                  \div current_emissions]

\* The carbon engine's estimate for the emissions of running now and of
\* running at the best forecast point (in grams; the values used divide
\* exactly): the saving and its percentage, 0 when nothing is emitted now
EstimateSavings(current_emissions, best_emissions) ==
    [current_emissions_kg_co2 |-> current_emissions,
     best_emissions_kg_co2 |-> best_emissions,
     savings_kg_co2 |-> current_emissions - best_emissions,
     savings_percent |-> IF current_emissions = 0 THEN 0
                         ELSE ((current_emissions - best_emissions) * 100)
                                  \div current_emissions]

\* Bodies a 2xx response to `operation` may carry
OkBodies(operation) ==
    CASE operation \in {"submit_job", "submit_carbon_aware_job"} ->
             {JsonBody(d) : d \in SubmitData} \cup {EmptyBody, TextBody}
      [] operation = "cancel_job" ->
             {JsonBody(d) : d \in CancelData} \cup {EmptyBody, TextBody}
      [] operation = "submit_jobs" ->
             {JsonBody(d) : d \in SubmitData} \cup {EmptyBody, TextBody}
      [] operation = "get_job" ->
             {JsonBody(WireJob(s, {}, p)) :
                 s \in {"running", "completed", "paused"}, p \in WireProgress}
             \cup {JsonBody(WireJob("running", {f}, {})) : f \in {"vmdk", "vhd"}}
             \cup {EmptyBody, TextBody}
      [] operation = "estimate_carbon_savings" ->
             {JsonBody(EstimateSavings(c, b)) : c \in {0, 100, 200}, b \in {0, 50, 100, 200}}
             \cup {TextBody}
      [] operation = "login" ->
             {JsonBody([token |-> t]) : t \in {"tok-1", "tok-2", ""}}
             \cup {JsonBody([message |-> "ok"]), EmptyBody, TextBody}
      [] operation = "list_jobs" ->
             {JsonBody([jobs |-> js]) : js \in ListedJobs} \cup {EmptyBody, TextBody}
      [] operation = "query_jobs" ->
             {JsonBody([jobs |-> js]) :
                 js \in { <<>>,
                          <<WireJob("running", {}, {})>>,
                          <<WireJob("completed", {"vmdk"}, {}), WireJob("paused", {}, {})>> }}
             \cup {EmptyBody, TextBody}
      [] OTHER -> {EmptyBody, TextBody, JsonBody([status |-> "ok"])}

HttpExchanges(operation) ==
    { [transport |-> t, status_code |-> 0, body |-> EmptyBody] : t \in TransportFailures }
    \cup { [transport |-> "response", status_code |-> s, body |-> b] :
             s \in {400, 401, 403, 404, 500}, b \in ErrorBodies }
    \cup { [transport |-> "response", status_code |-> 200, body |-> b] :
             b \in OkBodies(operation) }

\* requests.Response.ok
ResponseOk(h) == h.status_code < 400

(***************************************************************************)
(* Results of a call                                                       *)
(***************************************************************************)
Return(v) ==
    [kind |-> "return", exc |-> "none", status_code |-> {}, response |-> {},
     message |-> <<>>, value |-> v]

Raise(e, msg, code, payload) ==
    [kind |-> "raise", exc |-> e, status_code |-> code, response |-> payload,
     message |-> msg, value |-> {}]

\* response.json() on a body that is not JSON: requests >= 2.27 raises
\* requests.exceptions.JSONDecodeError (a RequestException, caught at client.py:136);
\* older releases setup.py admits raise json.JSONDecodeError (a ValueError), which
\* is not caught.
JsonDecodeFailure(version) ==
    IF version = ">=2.27"
    THEN Raise("APIError", <<"Request failed", "JSONDecodeError">>, {}, {})
    ELSE Raise("JSONDecodeError", <<"Expecting value">>, {}, {})

\* APIError raised for a non-ok response (client.py:119-130)
ApiErrorFor(h, version) ==
    LET b == h.body
        error_msg == IF b.kind = "json" THEN Get(b.data, "error", "body text")
                     ELSE "body text"
    IN  CASE b.kind = "empty" -> Raise("APIError", <<"API error", error_msg>>, {h.status_code}, {})
          [] b.kind = "json"  -> Raise("APIError", <<"API error", error_msg>>, {h.status_code}, {b.data})
          [] b.kind = "text"  -> JsonDecodeFailure(version)

\* HyperSDK._request
Request(h, version) ==
    IF h.transport # "response"
    THEN Raise("APIError", <<"Request failed", h.transport>>, {}, {})
    ELSE IF h.status_code = 404
    THEN Raise("JobNotFoundError", <<"Resource not found">>, {}, {})
    ELSE IF h.status_code = 401
    THEN Raise("AuthenticationError", <<"Authentication failed">>, {}, {})
    ELSE IF ~ResponseOk(h)
    THEN ApiErrorFor(h, version)
    ELSE CASE h.body.kind = "empty" -> Return({})
           [] h.body.kind = "json"  -> Return({h.body.data})
           [] h.body.kind = "text"  -> JsonDecodeFailure(version)

(***************************************************************************)
(* Data model (models.py): encoding and decoding                           *)
(***************************************************************************)
\* datetime.isoformat() of a naive datetime
Isoformat(t) == <<"iso", t, "">>

\* datetime.fromisoformat(s.replace("Z", "+00:00"))
FromIsoformat(s) == [timestamp |-> s[2], aware |-> s[3] \in {"Z", "+00:00"}]

\* ExportOptions.to_dict: asdict without the None fields
ExportOptionsToDict(self) ==
    ("parallel_downloads" :> self.parallel_downloads)
    @@ ("compress_level" :> self.compress_level)
    @@ OptItem("libvirt_uri", self.libvirt_uri)

\* JobDefinition.to_dict
ToDict(self) ==
    ("vm_path" :> self.vm_path)
    @@ OptItem("name", self.name)
    @@ OptItem("id", self.id)
    @@ OptItem("output_path", self.output_path)
    @@ OptItem("output_dir", self.output_dir)
    @@ OptItem("vcenter_url", self.vcenter_url)
    @@ OptItem("vcenter", self.vcenter)
    @@ OptItem("username", self.username)
    @@ OptItem("datacenter", self.datacenter)
    @@ ("format" :> self.format)
    @@ (IF self.export_method # "" THEN "export_method" :> self.export_method ELSE EmptyDict)
    @@ OptItem("method", self.method)
    @@ ("compress" :> self.compress)
    @@ ("thin" :> self.thin)
    @@ ("insecure" :> self.insecure)
    @@ (IF self.options # {} THEN "options" :> ExportOptionsToDict(The(self.options))
        ELSE EmptyDict)
    @@ (IF self.created_at # {} THEN "created_at" :> Isoformat(The(self.created_at))
        ELSE EmptyDict)

\* Enum(value) of a value that is no member: ValueError("'x' is not a valid <Enum>")
NotAMember(value, enum) ==
    Raise("ValueError", <<value, "is not a valid", enum>>, {}, {})

DefinitionFromDict_NamedAfterPath(definition_data) ==
    Return([JobDefinition(definition_data["vm_path"]) EXCEPT
                !.name = {definition_data["vm_path"]},
                !.format = Get(definition_data, "format", "ovf")])

\* The JobDefinition(...) call of Job.from_dict, arguments evaluated in order
DefinitionFromDict(definition_data) ==
    LET format == Get(definition_data, "format", "ovf")
        export_method == Get(definition_data, "export_method", "")
    IN  IF "vm_path" \notin DOMAIN definition_data
        THEN Raise("KeyError", <<"vm_path">>, {}, {})
        ELSE IF format \notin ExportFormat
        THEN NotAMember(format, "ExportFormat")
        ELSE IF export_method \notin ExportMethod
        THEN NotAMember(export_method, "ExportMethod")
        ELSE Return([JobDefinition(definition_data["vm_path"]) EXCEPT
                        !.name = OptGet(definition_data, "name"),
                        !.id = OptGet(definition_data, "id"),
                        !.output_path = OptGet(definition_data, "output_path"),
                        !.output_dir = OptGet(definition_data, "output_dir"),
                        !.vcenter_url = OptGet(definition_data, "vcenter_url"),
                        !.username = OptGet(definition_data, "username"),
                        !.datacenter = OptGet(definition_data, "datacenter"),
                        !.format = format,
                        !.export_method = export_method,
                        !.compress = Get(definition_data, "compress", FALSE),
                        !.thin = Get(definition_data, "thin", FALSE),
                        !.insecure = Get(definition_data, "insecure", FALSE)])

\* JobProgress.from_dict: the annotated keys, the rest dropped; phase is required
JobProgressFromDict(data) ==
    IF "phase" \notin DOMAIN data
    THEN Raise("TypeError", <<"missing required argument", "phase">>, {}, {})
    ELSE Return([phase |-> data["phase"],
                 current_file |-> OptGet(data, "current_file"),
                 percent_complete |-> Get(data, "percent_complete", 0)])

\* JobResult.from_dict: the first required key that is missing is a KeyError
JobResultFromDict(data) ==
    LET required == <<"vm_name", "output_dir", "ovf_path", "total_size", "duration", "success">>
        missing == {i \in DOMAIN required : required[i] \notin DOMAIN data}
    IN  IF missing # {}
        THEN Raise("KeyError", <<required[CHOOSE i \in missing : \A j \in missing : i <= j]>>,
                   {}, {})
        ELSE Return([vm_name |-> data["vm_name"], output_dir |-> data["output_dir"],
                     ovf_path |-> data["ovf_path"], files |-> Get(data, "files", <<>>),
                     total_size |-> data["total_size"], duration |-> data["duration"],
                     success |-> data["success"],
                     export_method |-> OptGet(data, "export_method"),
                     error |-> OptGet(data, "error")])

\* Job.from_dict; started_at and completed_at are in no payload here
JobFromDict(data) ==
    IF "definition" \notin DOMAIN data
    THEN Raise("KeyError", <<"definition">>, {}, {})
    ELSE LET d == DefinitionFromDict(data["definition"])
             p == IF "progress" \in DOMAIN data
                  THEN JobProgressFromDict(data["progress"])
                  ELSE Return({})
             res == IF Get(data, "result", EmptyDict) # EmptyDict
                    THEN JobResultFromDict(data["result"])
                    ELSE Return({})
         IN  IF d.kind = "raise" THEN d
             ELSE IF p.kind = "raise" THEN p
             ELSE IF res.kind = "raise" THEN res
             ELSE IF "status" \notin DOMAIN data
             THEN Raise("KeyError", <<"status">>, {}, {})
             ELSE IF data["status"] \notin Statuses
             THEN NotAMember(data["status"], "JobStatus")
             ELSE IF "updated_at" \notin DOMAIN data
             THEN Raise("KeyError", <<"updated_at">>, {}, {})
             ELSE Return([definition |-> d.value,
                          status |-> data["status"],
                          updated_at |-> FromIsoformat(data["updated_at"]),
                          progress |-> IF "progress" \in DOMAIN data THEN {p.value} ELSE {},
                          result |-> IF Get(data, "result", EmptyDict) # EmptyDict
                                     THEN {res.value} ELSE {},
                          error |-> OptGet(data, "error")])

(***************************************************************************)
(* Client operations: what each does with the result of _request           *)
(***************************************************************************)
\* response[...] on None (an empty 2xx body)
NoneSubscript == Raise("TypeError", <<"'NoneType' object is not subscriptable">>, {}, {})

\* HyperSDK.submit_job, after self._request("POST", "/jobs/submit", ...)
SubmitJob(r) ==
    IF r.kind = "raise" THEN r
    ELSE IF r.value = {} THEN NoneSubscript
    ELSE LET response == The(r.value) IN
         IF response.accepted = 0
         THEN LET errors == Get(response, "errors", <<"Unknown error">>) IN
              IF Len(errors) = 0
              THEN Raise("IndexError", <<"list index out of range">>, {}, {})
              ELSE Raise("APIError", <<"Job submission failed", errors[1]>>, {}, {})
         ELSE IF Len(response.job_ids) = 0
              THEN Raise("IndexError", <<"list index out of range">>, {}, {})
              ELSE Return({response.job_ids[1]})

\* HyperSDK.submit_carbon_aware_job, after self._request("POST", "/jobs/submit", ...)
SubmitCarbonAwareJob(r) ==
    IF r.kind = "raise" THEN r
    ELSE IF r.value = {} THEN NoneSubscript
    ELSE LET response == The(r.value) IN
         IF response.accepted = 0
         THEN LET errors == Get(response, "errors", <<"Unknown error">>) IN
              IF Len(errors) = 0
              THEN Raise("IndexError", <<"list index out of range">>, {}, {})
              ELSE Raise("APIError", <<"Job submission failed", errors[1]>>, {}, {})
         ELSE IF Len(response.job_ids) = 0
              THEN Raise("IndexError", <<"list index out of range">>, {}, {})
              ELSE Return({response.job_ids[1]})

\* cancel_job as it would be if an id listed under failed gave False instead of raising
CancelJob_FailedGivesFalse(r, job_id) ==
    IF r.kind = "raise" THEN r
    ELSE IF r.value = {} THEN NoneSubscript
    ELSE IF job_id \in The(r.value).cancelled THEN Return({TRUE}) ELSE Return({FALSE})

\* HyperSDK.cancel_job, after self._request("POST", "/jobs/cancel", ...)
CancelJob(r, job_id) ==
    IF r.kind = "raise" THEN r
    ELSE IF r.value = {} THEN NoneSubscript
    ELSE LET response == The(r.value) IN
         IF job_id \in response.cancelled
         THEN Return({TRUE})
         ELSE IF job_id \in response.failed
         THEN IF "errors" \notin DOMAIN response
              THEN Raise("KeyError", <<"errors">>, {}, {})
              ELSE Raise("APIError",
                         <<"Failed to cancel job", Get(response.errors, job_id, "Unknown error")>>,
                         {}, {})
         ELSE Return({FALSE})

\* HyperSDK.cancel_jobs: returns what _request returns
CancelJobs(r) == r

\* HyperSDK.health: returns what _request returns
Health(r) == r

\* HyperSDK.get_job_logs: calls session.get itself, outside _request
GetJobLogs(h) ==
    IF h.transport # "response"
    THEN Raise(h.transport, <<"transport failure">>, {}, {})
    ELSE IF ~ResponseOk(h)
    THEN Raise("APIError", <<"Failed to get logs", "body text">>, {}, {})
    ELSE Return({"body text"})

\* HyperSDK.submit_jobs, after self._request("POST", "/jobs/submit", ...)
SubmitJobs(r) ==
    IF r.kind = "raise" THEN r
    ELSE IF r.value = {} THEN NoneSubscript
    ELSE Return({The(r.value).job_ids})

\* HyperSDK.get_job, after self._request("GET", f"/jobs/{job_id}")
GetJob(r) ==
    IF r.kind = "raise" THEN r
    ELSE IF r.value = {} THEN NoneSubscript
    ELSE JobFromDict(The(r.value))

\* [Job.from_dict(job_data) for job_data in jobs]: the first failure ends it
RECURSIVE JobsFromDicts(_)
JobsFromDicts(jobs) ==
    IF jobs = <<>> THEN Return(<<>>)
    ELSE LET first == JobFromDict(Head(jobs))
             rest == JobsFromDicts(Tail(jobs))
         IN  IF first.kind = "raise" THEN first
             ELSE IF rest.kind = "raise" THEN rest
             ELSE Return(<<first.value>> \o rest.value)

\* HyperSDK.query_jobs, after self._request("POST", "/jobs/query", ...)
QueryJobs(r) ==
    IF r.kind = "raise" THEN r
    ELSE IF r.value = {} THEN NoneSubscript
    ELSE JobsFromDicts(The(r.value).jobs)

\* HyperSDK.estimate_carbon_savings, after self._request("POST",
\* "/carbon/estimate", ...): the CarbonEstimate holds the fields of the body
\* (a 2xx response carries one)
EstimateCarbonSavings(r) ==
    IF r.kind = "raise" THEN r ELSE Return(The(r.value))

\* The headers _request and get_job_logs pass: the Bearer token if
\* self._token is truthy
Headers(tok) ==
    IF tok = {} \/ tok = {""} THEN EmptyDict
    ELSE "Authorization" :> <<"Bearer", The(tok)>>

\* HyperSDK.login, after self._request("POST", "/api/login", ...): returns
\* response["token"]
Login(r) ==
    IF r.kind = "raise" THEN r
    ELSE IF r.value = {} THEN NoneSubscript
    ELSE IF "token" \notin DOMAIN The(r.value)
    THEN Raise("KeyError", <<"token">>, {}, {})
    ELSE Return({The(r.value).token})

\* HyperSDK.logout, after self._request("POST", "/api/logout"): returns None
Logout(r) == IF r.kind = "raise" THEN r ELSE Return({})

TokenAfter_ClearedOnFailure(operation, tok, res) ==
    IF operation = "login" /\ res.kind = "return" THEN res.value
    ELSE IF operation = "logout" THEN {}
    ELSE tok

\* self._token after a call: login assigns it what it returns, logout None,
\* both after _request returned; no other operation assigns it
TokenAfter(operation, tok, res) ==
    IF operation = "login" /\ res.kind = "return" THEN res.value
    ELSE IF operation = "logout" /\ res.kind = "return" THEN {}
    ELSE tok

JobDefAfter_Annotated(operation, job_def) ==
    IF operation = "submit_carbon_aware_job"
    THEN [job_def EXCEPT !.name = {"carbon-aware"}]
    ELSE job_def

\* The caller's JobDefinition after submit_job or submit_carbon_aware_job:
\* both work on job_def.to_dict(), a dict built anew (its vcenter and options
\* entries too), and assign to that dict only
JobDefAfter(operation, job_def) == job_def

\* HyperSDK.list_jobs, after self._request("GET", "/jobs/query", params=params)
ListJobs(r) ==
    IF r.kind = "raise" THEN r
    ELSE IF r.value = {} THEN NoneSubscript
    ELSE JobsFromDicts(The(r.value).jobs)

\* Every outcome cancel_job can have for job_id
CancelOutcomes(job_id, version) ==
    { CancelJob(Request(h, version), job_id) : h \in HttpExchanges("cancel_job") }

(***************************************************************************)
(* Client: the requests each operation issues                              *)
(***************************************************************************)
\* One call of session.request / session.get; json is None ({}) or the body
HttpRequest(method, path, json) == [method |-> method, path |-> path, json |-> json]

Sends_Retried(request) == <<request, request>>

\* HyperSDK._request and get_job_logs: the request goes out once, whatever comes back
Sends(request) == <<request>>

\* int(max_delay_hours * 3600 * 1_000_000_000)
Nanoseconds(max_delay_hours) ==
    LET hours == FloatOfHundredths(max_delay_hours)
        seconds == RoundToDouble(MulSmall(hours.mant, 3600), hours.exp, FALSE)
        nanos == RoundToDouble(Normalise(seconds.mant \o <<0, 0, 0>>), seconds.exp, FALSE)
    IN  IntOfFloat(nanos)

CarbonMetadata_Plain(job_dict, carbon_zone, max_intensity, max_delay_hours) ==
    Get(job_dict, "metadata", EmptyDict)

\* job_dict["metadata"] after the four assignments of submit_carbon_aware_job
CarbonMetadata(job_dict, carbon_zone, max_intensity, max_delay_hours) ==
    ("carbon_aware" :> TRUE)
    @@ ("carbon_zone" :> carbon_zone)
    @@ ("carbon_max_intensity" :> max_intensity)
    @@ ("carbon_max_delay" :> Nanoseconds(max_delay_hours))
    @@ Get(job_dict, "metadata", EmptyDict)

\* The body submit_carbon_aware_job posts to /jobs/submit
CarbonJobDict(job_def, carbon_zone, max_intensity, max_delay_hours) ==
    LET job_dict == ToDict(job_def)
    IN  ("metadata" :> CarbonMetadata(job_dict, carbon_zone, max_intensity, max_delay_hours))
        @@ job_dict

\* request_data of query_jobs: only the truthy filters
QueryData(job_ids, status, all, limit) ==
    (IF job_ids # {} /\ The(job_ids) # <<>> THEN "job_ids" :> The(job_ids) ELSE EmptyDict)
    @@ (IF status # {} /\ The(status) # <<>> THEN "status" :> The(status) ELSE EmptyDict)
    @@ (IF all THEN "all" :> TRUE ELSE EmptyDict)
    @@ (IF limit # {} /\ The(limit) # 0 THEN "limit" :> The(limit) ELSE EmptyDict)

\* Definitions a caller submits: the minimal one, one with a name, one with
\* every field populated
ClientJobDefs ==
    { JobDefinition(VmPath),
      Populated({"name"}, "vmdk", "", TRUE, FALSE, FALSE),
      Populated(OptionalFields, "qcow2", "govc", FALSE, TRUE, TRUE) }

RECURSIVE ToDicts(_)
ToDicts(job_defs) ==
    IF job_defs = <<>> THEN <<>> ELSE <<ToDict(Head(job_defs))>> \o ToDicts(Tail(job_defs))

\* Arguments of query_jobs: no filter, each filter alone (set, and set to a
\* falsy value), and all of them
QueryArgs ==
    LET none == [job_ids |-> {}, status |-> {}, all |-> FALSE, limit |-> {}]
    IN  { none,
          [none EXCEPT !.job_ids = {<<JobId>>}],
          [none EXCEPT !.job_ids = {<<>>}, !.limit = {0}],
          [none EXCEPT !.status = {<<"running", "pending">>}],
          [none EXCEPT !.all = TRUE],
          [job_ids |-> {<<JobId, "job-2">>}, status |-> {<<"failed">>}, all |-> TRUE,
           limit |-> {10}] }

\* Arguments of submit_carbon_aware_job.  max_delay_hours is in hundredths of
\* an hour, the float being the one its decimal literal denotes (4.0 is 400).
\* The documented defaults with each delay, and each other argument varied.
CarbonArgs ==
    LET defaults == [job_def |-> JobDefinition(VmPath), carbon_zone |-> "US-CAL-CISO",
                     max_intensity |-> 200, max_delay_hours |-> 400]
    IN  { [defaults EXCEPT !.max_delay_hours = d] : d \in {0, 50, 113, 200, 201, 400, 402, 2400} }
        \cup { [defaults EXCEPT !.job_def = j] : j \in ClientJobDefs }
        \cup { [defaults EXCEPT !.carbon_zone = "DE", !.max_intensity = 100] }

\* The requests submit_job and submit_carbon_aware_job issue
SubmitRequest(job_def) == HttpRequest("POST", <<"/jobs/submit">>, {ToDict(job_def)})

CarbonAwareRequest(a) ==
    HttpRequest("POST", <<"/jobs/submit">>,
                {CarbonJobDict(a.job_def, a.carbon_zone, a.max_intensity, a.max_delay_hours)})

CarbonRequest == [a \in CarbonArgs |-> CarbonAwareRequest(a)]

(***************************************************************************)
(* Client: initial state and one action per operation                      *)
(***************************************************************************)
ClientIdle ==
    /\ op = "none"
    /\ http = [transport |-> "none", status_code |-> 0, body |-> EmptyBody]
    /\ result = Return({})
    /\ args = EmptyDict
    /\ sent = <<>>
    /\ token = {}
    /\ headers = EmptyDict
    /\ job_def_after = {}

Call(operation, a, request, h, res) ==
    /\ op' = operation
    /\ args' = a
    /\ sent' = Sends(request)
    /\ headers' = Headers(token)
    /\ http' = h
    /\ result' = res
    /\ token' = TokenAfter(operation, token, res)
    /\ job_def_after' = IF operation \in {"submit_job", "submit_carbon_aware_job"}
                        THEN {JobDefAfter(operation, a.job_def)} ELSE {}
    /\ UNCHANGED <<requests_version, monitorVars, multiVars, modelVars, carbonVars, costVars>>

CallSubmitJob ==
    \E h \in HttpExchanges("submit_job"), job_def \in ClientJobDefs :
        Call("submit_job", [job_def |-> job_def],
             SubmitRequest(job_def),
             h, SubmitJob(Request(h, requests_version)))

CallSubmitJobs ==
    \E h \in HttpExchanges("submit_jobs"),
       job_defs \in {<<>>, <<JobDefinition(VmPath)>>}
                    \cup {<<JobDefinition(VmPath), j>> : j \in ClientJobDefs} :
        Call("submit_jobs", [job_defs |-> job_defs],
             HttpRequest("POST", <<"/jobs/submit">>, {ToDicts(job_defs)}),
             h, SubmitJobs(Request(h, requests_version)))

CallSubmitCarbonAwareJob ==
    \E h \in HttpExchanges("submit_carbon_aware_job"), a \in CarbonArgs :
        Call("submit_carbon_aware_job", a, CarbonRequest[a],
             h, SubmitCarbonAwareJob(Request(h, requests_version)))

\* submit_job of the definition the caller handed to submit_carbon_aware_job
CallResubmit ==
    /\ op = "submit_carbon_aware_job"
    /\ \E h \in HttpExchanges("submit_job"), job_def \in job_def_after :
           Call("submit_job", [job_def |-> job_def],
                SubmitRequest(job_def),
                h, SubmitJob(Request(h, requests_version)))

CallLogin ==
    \E h \in HttpExchanges("login") :
        LET a == [username |-> "admin", password |-> "password"]
        IN  Call("login", a, HttpRequest("POST", <<"/api/login">>, {a}),
                 h, Login(Request(h, requests_version)))

CallLogout ==
    \E h \in HttpExchanges("logout") :
        Call("logout", EmptyDict, HttpRequest("POST", <<"/api/logout">>, {}),
             h, Logout(Request(h, requests_version)))

CallGetJob ==
    \E h \in HttpExchanges("get_job") :
        Call("get_job", [job_id |-> JobId],
             HttpRequest("GET", <<"/jobs", JobId>>, {}),
             h, GetJob(Request(h, requests_version)))

CallQueryJobs ==
    \E h \in HttpExchanges("query_jobs"), q \in QueryArgs :
        Call("query_jobs", q,
             HttpRequest("POST", <<"/jobs/query">>,
                         {QueryData(q.job_ids, q.status, q.all, q.limit)}),
             h, QueryJobs(Request(h, requests_version)))

CallCancelJob ==
    \E h \in HttpExchanges("cancel_job") :
        Call("cancel_job", [job_id |-> JobId],
             HttpRequest("POST", <<"/jobs/cancel">>, {[job_ids |-> <<JobId>>]}),
             h, CancelJob(Request(h, requests_version), JobId))

CallCancelJobs ==
    \E h \in HttpExchanges("cancel_jobs"), job_ids \in {<<>>, <<JobId>>, <<JobId, "job-2">>} :
        Call("cancel_jobs", [job_ids |-> job_ids],
             HttpRequest("POST", <<"/jobs/cancel">>, {[job_ids |-> job_ids]}),
             h, CancelJobs(Request(h, requests_version)))

CallHealth ==
    \E h \in HttpExchanges("health") :
        Call("health", EmptyDict, HttpRequest("GET", <<"/health">>, {}),
             h, Health(Request(h, requests_version)))

CallEstimateCarbonSavings ==
    \E h \in HttpExchanges("estimate_carbon_savings") :
        LET a == [zone |-> "US-CAL-CISO", data_size_gb |-> 500, duration_hours |-> 2]
        IN  Call("estimate_carbon_savings", a, HttpRequest("POST", <<"/carbon/estimate">>, {a}),
                 h, EstimateCarbonSavings(Request(h, requests_version)))

CallGetJobLogs ==
    \E h \in HttpExchanges("get_job_logs") :
        Call("get_job_logs", [job_id |-> JobId],
             HttpRequest("GET", <<"/jobs/logs", JobId>>, {}),
             h, GetJobLogs(h))

(***************************************************************************)
(* Job-monitoring loops                                                    *)
(***************************************************************************)

\* models.JobStatus
Terminal == {"completed", "failed", "cancelled"}

Progress(p) == [phase |-> "exporting", percent_complete |-> p]

\* What a successful get_job poll can return: the status and the optional progress
JobResponses ==
    [status : Statuses, progress : {{}} \cup {{Progress(p)} : p \in {10, 12, 55}}]

\* progress.get('phase', 'unknown') after job.get('progress', {})
PhaseOf(r) == IF r.progress = {} THEN "unknown" ELSE The(r.progress).phase

\* progress.get('percent_complete', 0) after job.get('progress', {})
PercentOf(r) == IF r.progress = {} THEN 0 ELSE The(r.progress).percent_complete

\* Does the loop print a status / progress / completion line for response r?
Emits(l, r, lastPercent, lastPhase) ==
    CASE l = "monitor_job" -> TRUE
      [] l = "export_vm" ->
            \/ r.status \in {"completed", "failed"}
            \/ /\ r.status = "running"
               /\ (PhaseOf(r) # lastPhase \/ PercentOf(r) % 5 = 0)
      [] l = "incremental_backup" ->
            \/ r.status \in {"completed", "failed"}
            \/ /\ r.status = "running"
               /\ PercentOf(r) # lastPercent

\* incremental_backup.py:107 reads `analysis`, unbound when step 2 raised: the
\* NameError is caught at line 135 and the loop goes on
CompletionRaises(l, r, bound) ==
    l = "incremental_backup" /\ r.status = "completed" /\ ~bound

\* Does the loop leave (break / return) on response r?
Exits(l, r, bound) ==
    CASE l = "monitor_job" -> r.status \in {"completed", "failed", "cancelled"}
      [] l = "export_vm" -> r.status \in {"completed", "failed"}
      [] l = "incremental_backup" ->
            r.status \in {"completed", "failed"} /\ ~CompletionRaises(l, r, bound)

\* The value returned when the loop leaves on response r
ReturnCode(l, r) ==
    CASE l = "monitor_job" -> 0
      [] OTHER -> IF r.status = "completed" THEN 0 ELSE 1

NotEnded == [kind |-> "none", code |-> {}, exc |-> "none"]
Returned(c) == [kind |-> "return", code |-> {c}, exc |-> "none"]
Raised(e) == [kind |-> "raise", code |-> {}, exc |-> e]

\* The scripted poll responses of the monitor's test
Script ==
    << [status |-> "pending", progress |-> {}],
       [status |-> "running", progress |-> {Progress(10)}],
       [status |-> "running", progress |-> {Progress(10)}],
       [status |-> "running", progress |-> {Progress(55)}],
       [status |-> "completed", progress |-> {}] >>

NextScriptPos(pos, n, r) ==
    IF pos >= 0 /\ pos = n /\ pos < Len(Script) /\ Script[pos + 1] = r
    THEN pos + 1
    ELSE -1

MonitorInit ==
    /\ loop \in {"monitor_job", "export_vm", "incremental_backup"}
    /\ analysis_bound \in (IF loop = "incremental_backup" THEN BOOLEAN ELSE {TRUE})
    /\ pc = "poll"
    /\ job = {}
    /\ prevJob = {}
    /\ polled = {}
    /\ polls = 0
    /\ lastPoll = "none"
    /\ emitted = FALSE
    /\ events = 0
    /\ errorsReported = 0
    /\ last_percent = -1
    /\ last_phase = "None"
    /\ seenTerminal = FALSE
    /\ scriptPos = 0
    /\ cancels = 0
    /\ endedBy = "none"
    /\ outcome = NotEnded

Rebind_OnOutput(local, r, out) == IF out THEN {r} ELSE local

\* job = client.get_job(job_id): the name is bound to the value returned,
\* whatever it held and whether or not the poll prints anything
Rebind(local, r, out) == {r}

\* get_job returns r: the body of the try block up to the sleep
PollOk ==
    /\ pc = "poll"
    /\ polls < MaxPolls
    /\ \E r \in JobResponses :
        LET out == Emits(loop, r, last_percent, last_phase)
            leave == Exits(loop, r, analysis_bound)
        IN  /\ polls' = polls + 1
            /\ lastPoll' = "ok"
            /\ prevJob' = job
            /\ polled' = {r}
            /\ job' = Rebind(job, r, out)
            /\ emitted' = out
            /\ events' = IF out THEN events + 1 ELSE events
            /\ errorsReported' = IF CompletionRaises(loop, r, analysis_bound)
                                 THEN errorsReported + 1 ELSE errorsReported
            /\ last_percent' = IF loop = "incremental_backup" /\ r.status = "running" /\ out
                               THEN PercentOf(r) ELSE last_percent
            /\ last_phase' = IF loop = "export_vm" /\ r.status = "running" /\ out
                             THEN PhaseOf(r) ELSE last_phase
            /\ seenTerminal' = (seenTerminal \/ r.status \in Terminal)
            /\ scriptPos' = NextScriptPos(scriptPos, polls, r)
            /\ pc' = IF leave THEN "done" ELSE "sleep"
            /\ endedBy' = IF leave THEN "terminal" ELSE endedBy
            /\ outcome' = IF leave THEN Returned(ReturnCode(loop, r)) ELSE outcome
    /\ UNCHANGED <<loop, analysis_bound, cancels, multiVars, clientVars, modelVars, carbonVars, costVars>>

\* Does the loop end the session when get_job raises?
PollErrorEnds(l) == l = "monitor_job"

\* get_job raises a client error (except Exception)
PollFail ==
    /\ pc = "poll"
    /\ polls < MaxPolls
    /\ polls' = polls + 1
    /\ lastPoll' = "fail"
    /\ emitted' = FALSE
    /\ errorsReported' = errorsReported + 1
    /\ scriptPos' = -1
    /\ pc' = IF PollErrorEnds(loop) THEN "done" ELSE "sleep"
    /\ endedBy' = IF PollErrorEnds(loop) THEN "poll_error" ELSE endedBy
    /\ outcome' = IF PollErrorEnds(loop) THEN Returned(1) ELSE outcome
    /\ UNCHANGED <<loop, analysis_bound, job, prevJob, polled, events, last_percent, last_phase,
                   seenTerminal, cancels, multiVars, clientVars, modelVars, carbonVars, costVars>>

\* time.sleep returns: the next tick
Tick ==
    /\ pc = "sleep"
    /\ pc' = "poll"
    /\ UNCHANGED <<loop, analysis_bound, job, prevJob, polled, polls, lastPoll, emitted, events,
                   errorsReported, last_percent, last_phase, seenTerminal, scriptPos,
                   cancels, endedBy, outcome, multiVars, clientVars, modelVars, carbonVars, costVars>>

\* The KeyboardInterrupt handler as it would be with the cancel_job call left out
InterruptCancels_NoCancel(l) == 0

\* Number of cancel_job calls the loop's KeyboardInterrupt handler issues
InterruptCancels(l) == IF l = "monitor_job" THEN 1 ELSE 0

\* Is the loop's time.sleep inside its try block?
SleepInTry(l) == l = "monitor_job"

\* How the function ends on KeyboardInterrupt, c being cancel_job's outcome
InterruptOutcome(l, at, c) ==
    IF ~SleepInTry(l) /\ at = "sleep" THEN Raised("KeyboardInterrupt")
    ELSE IF l = "monitor_job"
         THEN (IF c.kind = "raise" THEN Raised(c.exc) ELSE Returned(1))
         ELSE Returned(130)

\* The operator interrupts (Ctrl-C) while the loop polls or sleeps
Interrupt ==
    /\ pc \in {"poll", "sleep"}
    /\ outcome' \in { InterruptOutcome(loop, pc, c) : c \in CancelOutcomes(JobId, requests_version) }
    /\ cancels' = cancels + InterruptCancels(loop)
    /\ pc' = "done"
    /\ endedBy' = "interrupt"
    /\ UNCHANGED <<loop, analysis_bound, job, prevJob, polled, polls, lastPoll, emitted, events,
                   errorsReported, last_percent, last_phase, seenTerminal, scriptPos,
                   multiVars, clientVars, modelVars, carbonVars, costVars>>

MonitorIdle ==
    /\ loop = "monitor_job"
    /\ analysis_bound = TRUE
    /\ pc = "done"
    /\ job = {}
    /\ prevJob = {}
    /\ polled = {}
    /\ polls = 0
    /\ lastPoll = "none"
    /\ emitted = FALSE
    /\ events = 0
    /\ errorsReported = 0
    /\ last_percent = -1
    /\ last_phase = "None"
    /\ seenTerminal = FALSE
    /\ scriptPos = 0
    /\ cancels = 0
    /\ endedBy = "none"
    /\ outcome = NotEnded

(***************************************************************************)
(* Multi-job monitor: monitor_all_jobs                                     *)
(***************************************************************************)
MaxTicks == 3

MultiIdle ==
    /\ multi_pc = "done"
    /\ ticks = 0
    /\ fetched = {}
    /\ rendered = <<>>
    /\ multi_outcome = NotEnded

\* running_jobs = [j for j in jobs if j.status == JobStatus.RUNNING]
RunningJobs(jobs) ==
    LET IsRunning(j) == j.status = "running" IN SelectSeq(jobs, IsRunning)

\* One iteration of the loop: list_jobs, the filter, then "No running jobs."
\* and break (the function returns None), or the screen and the sleep; an
\* exception of list_jobs ends the run with 1
TickAll ==
    /\ multi_pc = "fetch"
    /\ ticks < MaxTicks
    /\ ticks' = ticks + 1
    /\ \E h \in HttpExchanges("list_jobs") :
           LET r == ListJobs(Request(h, requests_version))
               running_jobs == RunningJobs(r.value)
           IN  /\ op' = "list_jobs"
               /\ args' = [all |-> TRUE]
               /\ sent' = Sends(HttpRequest("GET", <<"/jobs/query", [all |-> "true"]>>, {}))
               /\ headers' = Headers(token)
               /\ job_def_after' = {}
               /\ http' = h
               /\ result' = r
               /\ IF r.kind = "raise"
                  THEN /\ fetched' = {}
                       /\ rendered' = <<>>
                       /\ multi_pc' = "done"
                       /\ multi_outcome' = Returned(1)
                  ELSE /\ fetched' = {r.value}
                       /\ rendered' =
                              [i \in DOMAIN running_jobs |->
                                  LET j == running_jobs[i]
                                  IN  [job_id |-> IF j.definition.id # {}
                                                  THEN The(j.definition.id) ELSE "Unknown",
                                       name |-> IF j.definition.name # {}
                                                THEN The(j.definition.name)
                                                ELSE j.definition.vm_path,
                                       percent |-> {pr.percent_complete : pr \in j.progress}]]
                       /\ multi_pc' = IF running_jobs = <<>> THEN "done" ELSE "sleep"
                       /\ multi_outcome' = IF running_jobs = <<>>
                                           THEN [kind |-> "return", code |-> {}, exc |-> "none"]
                                           ELSE multi_outcome
    /\ UNCHANGED <<requests_version, token, monitorVars, modelVars, carbonVars, costVars>>

\* time.sleep(3) returns
WakeAll ==
    /\ multi_pc = "sleep"
    /\ multi_pc' = "fetch"
    /\ UNCHANGED <<ticks, fetched, rendered, multi_outcome, monitorVars, clientVars, modelVars,
                   carbonVars, costVars>>

\* Ctrl-C while the loop fetches or sleeps: "Stopped monitoring.", return 0
InterruptAll ==
    /\ multi_pc \in {"fetch", "sleep"}
    /\ multi_pc' = "done"
    /\ multi_outcome' = Returned(0)
    /\ UNCHANGED <<ticks, fetched, rendered, monitorVars, clientVars, modelVars, carbonVars,
                   costVars>>

(***************************************************************************)
(* Data model: initial state and one action per conversion                 *)
(***************************************************************************)

ModelIdle ==
    /\ codec = "none"
    /\ definition = {}
    /\ wire = EmptyDict
    /\ decoded = Return({})
    /\ report = [lines |-> <<>>, outcome |-> NotEnded]

\* A conversion starts from a JobDefinition to encode or from a payload
\* received from the server
ModelStart ==
    /\ codec = "none"
    /\ decoded = Return({})
    /\ report = [lines |-> <<>>, outcome |-> NotEnded]
    /\ \/ definition \in {{job_def} : job_def \in JobDefinitions} /\ wire = EmptyDict
       \/ definition = {} /\ wire \in WireJobs

\* job_def.to_dict()
Encode ==
    /\ codec = "none"
    /\ definition # {}
    /\ codec' = "encoded"
    /\ wire' = ToDict(The(definition))
    /\ UNCHANGED <<definition, decoded, report, monitorVars, multiVars, clientVars, carbonVars, costVars>>

\* The payload travels as the "definition" of a Job and is decoded by the
\* JobDefinition(...) call of Job.from_dict
DecodeDefinition ==
    /\ codec = "encoded"
    /\ codec' = "round_trip"
    /\ decoded' = DefinitionFromDict(wire)
    /\ UNCHANGED <<definition, wire, report, monitorVars, multiVars, clientVars, carbonVars, costVars>>

\* Job.from_dict(data) on a payload received from the server
DecodeJob ==
    /\ codec = "none"
    /\ definition = {}
    /\ codec' = "decode_job"
    /\ decoded' = JobFromDict(wire)
    /\ UNCHANGED <<definition, wire, report, monitorVars, multiVars, clientVars, carbonVars, costVars>>

FinalReport_Silent(j) == <<>>

\* monitor_job after the loop: the final report, line by line
FinalReport(j) ==
    CASE j.status = "completed" ->
             <<<<"Job completed successfully!">>>>
             \o (IF j.result # {}
                 THEN LET r == The(j.result)
                      IN  << <<"VM Name", r.vm_name>>, <<"Output Directory", r.output_dir>>,
                             <<"Total Size", r.total_size>>, <<"Duration", r.duration>>,
                             <<"Export Method", r.export_method>>, <<"Files", r.files>> >>
                 ELSE <<>>)
      [] j.status = "failed" ->
             <<<<"Job failed!">>>>
             \o (IF j.error # {} THEN <<<<"Error", The(j.error)>>>> ELSE <<>>)
      [] j.status = "cancelled" -> <<<<"Job was cancelled">>>>
      [] OTHER -> <<>>

\* monitor_job from the return of get_job on: it raised (Error, return 1), the
\* job is terminal (break, final report, return 0), or the loop sleeps
ReportPoll ==
    /\ codec = "decode_job"
    /\ codec' = "reported"
    /\ report' = IF decoded.kind = "raise"
                 THEN [lines |-> <<<<"Error", decoded.exc>>>>, outcome |-> Returned(1)]
                 ELSE IF decoded.value.status \in Terminal
                 THEN [lines |-> FinalReport(decoded.value), outcome |-> Returned(0)]
                 ELSE [lines |-> <<>>, outcome |-> NotEnded]
    /\ UNCHANGED <<definition, wire, decoded, monitorVars, multiVars, clientVars, carbonVars, costVars>>

(***************************************************************************)
(* Carbon-aware backup scripts: carbon_aware_backup.py main (steps 1, 4    *)
(* and 5) and carbon_quick_start.py                                        *)
(***************************************************************************)
MaxSavingsPercent == 40
SavingsThreshold == 30

\* job_def of each script
BackupJobDef(s) ==
    IF s = "carbon_aware_backup"
    THEN [JobDefinition("/datacenter/vm/prod-db") EXCEPT
             !.output_dir = {"/backups"}, !.name = {"nightly-backup-carbon-aware"}]
    ELSE [JobDefinition("/datacenter/vm/prod-db") EXCEPT !.output_dir = {"/backups"}]

\* The scripts' submit_carbon_aware_job call: CARBON_ZONE and THRESHOLD, or
\* the defaults of the method; 4 hours in every one
SubmitCarbonAware(s) ==
    LET a == [job_def |-> BackupJobDef(s), carbon_zone |-> "US-CAL-CISO",
              max_intensity |-> 200, max_delay_hours |-> 400]
    IN  [op |-> "submit_carbon_aware_job", args |-> a, request |-> CarbonAwareRequest(a)]

\* The submission each script makes for a status and an estimate
BackupSubmission(s, st, est) ==
    IF s = "carbon_aware_backup"
    THEN IF st.optimal_for_backup THEN SubmitCarbonAware(s)
         ELSE IF est.savings_percent > SavingsThreshold THEN SubmitCarbonAware(s)
         ELSE [op |-> "submit_job", args |-> [job_def |-> BackupJobDef(s)],
               request |-> SubmitRequest(BackupJobDef(s))]
    ELSE IF st.optimal_for_backup THEN SubmitCarbonAware(s)
         ELSE SubmitCarbonAware(s)

CarbonIdle ==
    /\ script = "carbon_quick_start"
    /\ carbon_pc = "done"
    /\ carbon_status = {}
    /\ carbon_estimate = {}

\* get_carbon_status and estimate_carbon_savings return; of the CarbonStatus
\* and the CarbonEstimate, the fields the scripts decide on
CheckGrid ==
    /\ carbon_pc = "check"
    /\ \E st \in [optimal_for_backup : BOOLEAN],
          est \in [savings_percent : 0..MaxSavingsPercent] :
           /\ carbon_status' = {st}
           /\ carbon_estimate' = {est}
    /\ carbon_pc' = "submit"
    /\ UNCHANGED <<script, monitorVars, multiVars, clientVars, modelVars, costVars>>

\* get_carbon_status or estimate_carbon_savings raises: nothing catches it
CheckGridFails ==
    /\ carbon_pc = "check"
    /\ carbon_pc' = "done"
    /\ UNCHANGED <<script, carbon_status, carbon_estimate, monitorVars, multiVars, clientVars, modelVars, costVars>>

\* The if / else that submits the backup job
SubmitBackup ==
    /\ carbon_pc = "submit"
    /\ LET call == BackupSubmission(script, The(carbon_status), The(carbon_estimate))
       IN  \E h \in HttpExchanges(call.op) :
               /\ op' = call.op
               /\ args' = call.args
               /\ sent' = Sends(call.request)
               /\ headers' = Headers(token)
               /\ job_def_after' = {JobDefAfter(call.op, call.args.job_def)}
               /\ http' = h
               /\ result' = IF call.op = "submit_job"
                            THEN SubmitJob(Request(h, requests_version))
                            ELSE SubmitCarbonAwareJob(Request(h, requests_version))
    /\ carbon_pc' = "done"
    /\ UNCHANGED <<script, carbon_status, carbon_estimate, requests_version, token,
                   monitorVars, multiVars, modelVars, costVars>>

(***************************************************************************)
(* cloud_cost_comparison.py                                                *)
(***************************************************************************)
Providers == <<"s3", "azure_blob", "gcs">>

\* The estimates the server priced: one per provider of a non-empty selection
RECURSIVE PricedFrom(_, _)
PricedFrom(i, prices) ==
    IF i > Len(Providers) THEN <<>>
    ELSE (IF Providers[i] \in DOMAIN prices
          THEN <<[provider |-> Providers[i],
                  storage_class |-> CASE Providers[i] = "s3" -> "s3_standard"
                                      [] Providers[i] = "azure_blob" -> "azure_hot"
                                      [] OTHER -> "gcs_standard",
                  total_cost |-> prices[Providers[i]]]>>
          ELSE <<>>)
         \o PricedFrom(i + 1, prices)

\* Insertion of e into a list ascending by total_cost, after its equals
RECURSIVE InsertByCost(_, _)
InsertByCost(e, sorted) ==
    IF sorted = <<>> THEN <<e>>
    ELSE IF e.total_cost < Head(sorted).total_cost THEN <<e>> \o sorted
    ELSE <<Head(sorted)>> \o InsertByCost(e, Tail(sorted))

RECURSIVE SortByCost(_)
SortByCost(estimates) ==
    IF estimates = <<>> THEN <<>>
    ELSE InsertByCost(estimates[Len(estimates)],
                      SortByCost(SubSeq(estimates, 1, Len(estimates) - 1)))

\* The cost engine's selection over the priced estimates: ascending order,
\* the cheapest provider, the spread; recommended is the server's own choice
CompareEngine(estimates, recommended) ==
    LET sorted == SortByCost(estimates)
    IN  [estimates |-> sorted,
         cheapest |-> sorted[1].provider,
         recommended |-> recommended,
         savings_vs_expensive |-> sorted[Len(sorted)].total_cost - sorted[1].total_cost]

Comparisons ==
    UNION { { CompareEngine(es, es[i].provider) : i \in {1, 3} \cap DOMAIN es } :
              es \in { PricedFrom(1, prices) :
                         prices \in UNION { [P -> {10, 25}] :
                                              P \in SUBSET {"s3", "azure_blob", "gcs"} \ {{}} } } }

\* monthly_breakdown lists: every list of 12, short ones, one of 13, and the
\* reference year 1,1,1, 2,2,2, 3,3,3, 4,4,4
ReferenceYear == <<1, 1, 1, 2, 2, 2, 3, 3, 3, 4, 4, 4>>
YearOfCosts ==
    [1..12 -> {1, 4}]
    \cup UNION { [1..n -> {1, 4}] : n \in 0..4 }
    \cup { SubSeq(ReferenceYear, 1, n) : n \in {7, 11} }
    \cup { ReferenceYear, ReferenceYear \o <<5>> }

RECURSIVE Sum(_)
Sum(costs) == IF costs = <<>> THEN 0 ELSE Head(costs) + Sum(Tail(costs))

Projection(costs) ==
    [total_cost |-> Sum(costs),
     monthly_average |-> Sum(costs) \div 12,
     monthly_breakdown |-> [i \in DOMAIN costs |-> [month |-> i, total_cost |-> costs[i]]]]

\* What the transport produces for a cost call that ends with `bodies` on success
CostExchanges(bodies) ==
    { [transport |-> "Timeout", status_code |-> 0, body |-> EmptyBody],
      [transport |-> "response", status_code |-> 500, body |-> JsonBody([error |-> "boom"])] }
    \cup { [transport |-> "response", status_code |-> 200, body |-> JsonBody(d)] : d \in bodies }

CompareProviders_NoSavings(r) ==
    IF r.kind = "return" /\ r.value # {}
    THEN Return({[The(r.value) EXCEPT !.savings_vs_expensive = 0]})
    ELSE r

\* HyperSDK.estimate_export_size, compare_providers, project_yearly_cost:
\* each returns what _request returns
EstimateExportSize(r) == r
CompareProviders(r) == r
ProjectYearlyCost(r) == r

Slice_Inclusive(list, start, stop) ==
    SubSeq(list, start + 1, IF stop + 1 < Len(list) THEN stop + 1 ELSE Len(list))

\* list[start:stop]
Slice(list, start, stop) ==
    SubSeq(list, start + 1, IF stop < Len(list) THEN stop ELSE Len(list))

\* sum(m['total_cost'] for m in months)
RECURSIVE SumTotalCost(_)
SumTotalCost(months) ==
    IF months = <<>> THEN 0 ELSE Head(months).total_cost + SumTotalCost(Tail(months))

\* quarters: Q1..Q4 of the monthly breakdown
Quarters(monthly_breakdown) ==
    << SumTotalCost(Slice(monthly_breakdown, 0, 3)),
       SumTotalCost(Slice(monthly_breakdown, 3, 6)),
       SumTotalCost(Slice(monthly_breakdown, 6, 9)),
       SumTotalCost(Slice(monthly_breakdown, 9, 12)) >>

\* next(e for e in comparison['estimates'] if e['provider'] == comparison['cheapest'])
Cheapest(c) ==
    LET S == {i \in DOMAIN c.estimates : c.estimates[i].provider = c.cheapest}
    IN  IF S = {} THEN {} ELSE {c.estimates[CHOOSE i \in S : \A j \in S : i <= j]}


CostIdle ==
    /\ cost_pc = "done"
    /\ duration_days = 365
    /\ comparison = {}
    /\ projection = {}
    /\ quarters = {}
    /\ projection_error = {}
    /\ cost_outcome = NotEnded

\* One client call of the run: what it was, what it sent, what came back
CostCall(operation, a, request, h, res) ==
    /\ op' = operation
    /\ args' = a
    /\ sent' = Sends(request)
    /\ headers' = Headers(token)
    /\ job_def_after' = {}
    /\ http' = h
    /\ result' = res
    /\ UNCHANGED <<requests_version, token, monitorVars, multiVars, modelVars, carbonVars>>

\* Step 1: estimate_export_size; any exception ends the run with 1
EstimateSize ==
    /\ cost_pc = "size"
    /\ \E h \in CostExchanges({[estimated_export_gb |-> 100, compression_ratio |-> 0]}) :
           LET r == EstimateExportSize(Request(h, requests_version))
               a == [disk_size_gb |-> 500, format |-> "ova", include_snapshots |-> FALSE]
           IN  /\ CostCall("estimate_export_size", a,
                           HttpRequest("POST", <<"/cost/estimate-size">>, {a}), h, r)
               /\ IF r.kind = "raise"
                  THEN cost_pc' = "done" /\ cost_outcome' = Returned(1)
                  ELSE cost_pc' = "compare" /\ cost_outcome' = cost_outcome
    /\ UNCHANGED <<duration_days, comparison, projection, quarters, projection_error>>

\* Steps 2 and 3: compare_providers, the table, the cheapest entry; then the
\* run goes on to the projection if duration_days < 365 and else returns 0
Compare ==
    /\ cost_pc = "compare"
    /\ \E h \in CostExchanges(Comparisons) :
           LET r == CompareProviders(Request(h, requests_version))
               a == [storage_gb |-> 100, transfer_gb |-> 0, requests |-> 1000,
                     duration_days |-> duration_days]
           IN  /\ CostCall("compare_providers", a,
                           HttpRequest("POST", <<"/cost/compare">>, {a}), h, r)
               /\ IF r.kind = "raise"
                  THEN /\ cost_pc' = "done"
                       /\ cost_outcome' = Returned(1)
                       /\ comparison' = comparison
                  ELSE /\ comparison' = r.value
                       /\ IF Cheapest(The(r.value)) = {}
                          THEN cost_pc' = "done" /\ cost_outcome' = Returned(1)
                          ELSE IF duration_days < 365
                          THEN cost_pc' = "project" /\ cost_outcome' = cost_outcome
                          ELSE cost_pc' = "done" /\ cost_outcome' = Returned(0)
    /\ UNCHANGED <<duration_days, projection, quarters, projection_error>>

\* Step 4: project_yearly_cost and the quarterly breakdown, inside their own
\* try; whatever happens the run goes on and returns 0
Project ==
    /\ cost_pc = "project"
    /\ \E h \in CostExchanges({ Projection(costs) : costs \in YearOfCosts }) :
           LET r == ProjectYearlyCost(Request(h, requests_version))
               a == [provider |-> The(comparison).recommended,
                     storage_class |-> The(Cheapest(The(comparison))).storage_class,
                     storage_gb |-> 100, transfer_gb |-> 0, requests |-> 1000]
           IN  /\ CostCall("project_yearly_cost", a,
                           HttpRequest("POST", <<"/cost/project">>,
                                       {a @@ ("duration_days" :> 30)}), h, r)
               /\ IF r.kind = "raise"
                  THEN /\ projection' = projection
                       /\ quarters' = quarters
                       /\ projection_error' = {r.exc}
                  ELSE /\ projection' = r.value
                       /\ quarters' = {Quarters(The(r.value).monthly_breakdown)}
                       /\ projection_error' = projection_error
    /\ cost_pc' = "done"
    /\ cost_outcome' = Returned(0)
    /\ UNCHANGED <<duration_days, comparison>>

(***************************************************************************)
(* Specifications                                                          *)
(***************************************************************************)
\* requests_version: setup.py admits releases before and after 2.27

\* One monitoring session
Init == MonitorInit /\ MultiIdle /\ ClientIdle /\ ModelIdle /\ CarbonIdle /\ CostIdle /\ requests_version \in {"<2.27", ">=2.27"}
Next == PollOk \/ PollFail \/ Tick \/ Interrupt
Spec == Init /\ [][Next]_vars

\* One client instance, any sequence of calls
ClientInit == MonitorIdle /\ MultiIdle /\ ClientIdle /\ ModelIdle /\ CarbonIdle /\ CostIdle /\ requests_version \in {"<2.27", ">=2.27"}
ClientNext ==
    \/ CallSubmitJob
    \/ CallSubmitJobs
    \/ CallSubmitCarbonAwareJob
    \/ CallGetJob
    \/ CallQueryJobs
    \/ CallCancelJob
    \/ CallCancelJobs
    \/ CallHealth
    \/ CallGetJobLogs
    \/ CallEstimateCarbonSavings
    \/ CallResubmit
ClientSpec == ClientInit /\ [][ClientNext]_vars

\* One client session: logins, logouts and requests between them
AuthNext == CallLogin \/ CallLogout \/ CallGetJob \/ CallGetJobLogs \/ CallHealth
AuthSpec == ClientInit /\ [][AuthNext]_vars

\* One run of a carbon-aware backup script
CarbonSpecInit ==
    /\ MonitorIdle /\ MultiIdle /\ ClientIdle /\ ModelIdle /\ CostIdle
    /\ script \in {"carbon_aware_backup", "carbon_quick_start"}
    /\ carbon_pc = "check"
    /\ carbon_status = {}
    /\ carbon_estimate = {}
    /\ requests_version \in {"<2.27", ">=2.27"}
CarbonNext == CheckGrid \/ CheckGridFails \/ SubmitBackup
CarbonSpec == CarbonSpecInit /\ [][CarbonNext]_vars

\* One run of compare_cloud_costs
CostSpecInit ==
    /\ MonitorIdle /\ MultiIdle /\ ClientIdle /\ ModelIdle /\ CarbonIdle
    /\ cost_pc = "size"
    /\ duration_days \in {30, 365}
    /\ comparison = {}
    /\ projection = {}
    /\ quarters = {}
    /\ projection_error = {}
    /\ cost_outcome = NotEnded
    /\ requests_version = ">=2.27"
CostNext == EstimateSize \/ Compare \/ Project
CostSpec == CostSpecInit /\ [][CostNext]_vars

\* One run of monitor_all_jobs
MultiInit ==
    /\ MonitorIdle /\ ClientIdle /\ ModelIdle /\ CarbonIdle /\ CostIdle
    /\ requests_version \in {"<2.27", ">=2.27"}
    /\ multi_pc = "fetch"
    /\ ticks = 0
    /\ fetched = {}
    /\ rendered = <<>>
    /\ multi_outcome = NotEnded
MultiNext == TickAll \/ WakeAll \/ InterruptAll
MultiSpec == MultiInit /\ [][MultiNext]_vars

\* The data model: one value, encoded and decoded
ModelInit ==
    MonitorIdle /\ MultiIdle /\ ClientIdle /\ ModelStart /\ CarbonIdle /\ CostIdle
    /\ requests_version = ">=2.27"
ModelNext == Encode \/ DecodeDefinition \/ DecodeJob \/ ReportPoll
ModelSpec == ModelInit /\ [][ModelNext]_vars

(***************************************************************************)
(* Properties of the monitoring loops (specification Spec)                 *)
(***************************************************************************)

\* C1: in every monitoring loop, once a poll has returned completed, failed or
\* cancelled, the loop has exited and issues no further get_job call.
C1_TerminalEndsPolling == seenTerminal => pc = "done"

\* C2 (as claimed): an operator interrupt during a single-job monitoring session
\* makes the monitor issue exactly one cancel_job call and exit without a further poll.
C2_InterruptCancelsOnce == endedBy = "interrupt" => (cancels = 1 /\ pc = "done")

\* C2 (amended): an operator interrupt ends the session without a further poll;
\* monitor_job has issued exactly one cancel_job call by then, export_vm and the
\* incremental-backup loop none.
C2_InterruptExits ==
    endedBy = "interrupt" =>
        /\ pc = "done"
        /\ outcome.kind # "none"
        /\ cancels = (IF loop = "monitor_job" THEN 1 ELSE 0)

\* C2 witness: monitor_job interrupted after a poll that read `running`: one cancel
\* sent, the local copy still says running.
C2_InterruptedWhileRunning ==
    /\ endedBy = "interrupt"
    /\ loop = "monitor_job"
    /\ cancels = 1
    /\ job # {}
    /\ The(job).status = "running"

\* C3: a failed get_job poll, the job not yet seen terminal, does not end the
\* session: the error is reported and the loop goes on to the next tick.
C3_PollErrorIsTransient ==
    (lastPoll = "fail" /\ ~seenTerminal /\ endedBy # "interrupt") =>
        (pc # "done" /\ errorsReported >= 1)

\* progress percent of a local copy, as an Optional
PercentSeen(j) == { x.percent_complete : x \in The(j).progress }

\* C5: a poll response produces output only if its status or its progress percent
\* differs from the previous poll's.
C5_OutputOnlyOnChange ==
    (lastPoll = "ok" /\ emitted /\ prevJob # {}) =>
        \/ The(job).status # The(prevJob).status
        \/ PercentSeen(job) # PercentSeen(prevJob)

\* C6: on the scripted responses pending, running(10%), running(10%), running(55%),
\* completed, monitor_job emits exactly 3 progress events and issues exactly 5 polls.
C6_ScriptGivesThreeEvents ==
    (loop = "monitor_job" /\ scriptPos = Len(Script) /\ pc = "done") =>
        (events = 3 /\ polls = 5)

(***************************************************************************)
(* Properties of the client (specification ClientSpec)                     *)
(***************************************************************************)
Responded == op # "none" /\ http.transport = "response"
JsonOk == Responded /\ http.status_code = 200 /\ http.body.kind = "json"

\* The cancel response lists JobId under failed (not under cancelled) with a reason
ListedFailedWithReason ==
    /\ op = "cancel_job"
    /\ JsonOk
    /\ JobId \in http.body.data.failed
    /\ JobId \notin http.body.data.cancelled
    /\ "errors" \in DOMAIN http.body.data
    /\ JobId \in DOMAIN http.body.data.errors

\* C4 (as claimed): cancel_job on a job the server lists under failed with a reason
\* returns False and never raises.
C4_CancelTerminalReturnsFalse ==
    ListedFailedWithReason => (result.kind = "return" /\ result.value = {FALSE})

\* C4 (amended): cancel_job on a job the server lists under failed with a reason
\* raises APIError carrying that reason; False is returned only for an id the
\* response lists neither under cancelled nor under failed.
C4_CancelTerminalRaises ==
    /\ ListedFailedWithReason =>
          /\ result.kind = "raise"
          /\ result.exc = "APIError"
          /\ result.message = <<"Failed to cancel job", http.body.data.errors[JobId]>>
    /\ (op = "cancel_job" /\ result.kind = "return" /\ result.value = {FALSE}) =>
          /\ JobId \notin http.body.data.failed
          /\ JobId \notin http.body.data.cancelled

\* C4 witness: a cancel of a job listed under failed with a reason has raised APIError
C4_CancelOfFinishedJob == ListedFailedWithReason /\ result.exc = "APIError"

\* The submit response is a 2xx with accepted = 0
Rejected ==
    /\ op \in {"submit_job", "submit_carbon_aware_job"}
    /\ JsonOk
    /\ http.body.data.accepted = 0

\* C7: whenever the submit response reports accepted = 0, submit_job and
\* submit_carbon_aware_job raise APIError, its message carrying the first reported
\* error string, and return no job id.
C7_RejectedSubmitRaisesAPIError ==
    Rejected =>
        /\ result.kind = "raise"
        /\ result.exc = "APIError"
        /\ result.value = {}
        /\ ("errors" \in DOMAIN http.body.data /\ Len(http.body.data.errors) > 0) =>
               result.message = <<"Job submission failed", http.body.data.errors[1]>>

\* C8: for every client operation a 404 response surfaces as JobNotFoundError and a
\* 401 response as AuthenticationError, never as APIError.
C8_NotFoundAndAuthAreClassified ==
    Responded =>
        /\ http.status_code = 404 => (result.kind = "raise" /\ result.exc = "JobNotFoundError")
        /\ http.status_code = 401 => (result.kind = "raise" /\ result.exc = "AuthenticationError")

\* C9: every other non-success response surfaces as an APIError carrying the
\* response's status code, and the JSON payload when the body has one, whether the
\* body is empty, JSON or non-JSON text.
C9_ErrorResponseCarriesStatus ==
    (Responded /\ ~ResponseOk(http) /\ http.status_code \notin {401, 404}) =>
        /\ result.kind = "raise"
        /\ result.exc = "APIError"
        /\ result.status_code = {http.status_code}
        /\ http.body.kind = "json" => result.response = {http.body.data}

\* C10: for every client operation a transport failure (connection refused, timeout)
\* surfaces as APIError, never as another exception kind.
C10_TransportFailureIsAPIError ==
    (op # "none" /\ http.transport \in TransportFailures) =>
        (result.kind = "raise" /\ result.exc = "APIError")

(***************************************************************************)
(* Properties of the requests the client issues (specification ClientSpec) *)
(***************************************************************************)
SingleRoundTripOps ==
    {"submit_job", "submit_jobs", "get_job", "query_jobs", "cancel_job", "cancel_jobs"}

\* C11: each call of submit, submitBatch, get, query, cancel and cancelBatch
\* issues exactly one HTTP request, whether the call returns or raises
C11_OneRequestPerCall ==
    op \in SingleRoundTripOps => Len(sent) = 1

\* A batch submission that failed in transport, after its one request
C11_FailedCallSentOnce ==
    /\ op = "submit_jobs"
    /\ http.transport \in TransportFailures
    /\ result.kind = "raise"
    /\ Len(sent) = 1

\* The body and the metadata of the job submission a carbon-aware call posted
SubmittedJob == The(sent[1].json)
SubmittedMetadata == Get(SubmittedJob, "metadata", EmptyDict)

\* hours * 3600 * 10^9 for hours given in hundredths
ExactNanoseconds(max_delay_hours) == Normalise(Groups(36 * max_delay_hours) \o <<0, 0, 0>>)

\* C12: submit_carbon_aware_job encodes the max delay in the submitted
\* metadata as hours * 3600 * 10^9 exactly, an integer number of nanoseconds;
\* for 4.0 hours the value is 14,400,000,000,000
C12_DelayIsExactNanoseconds ==
    op = "submit_carbon_aware_job" =>
        /\ Get(SubmittedMetadata, "carbon_max_delay", <<>>)
               = ExactNanoseconds(args.max_delay_hours)
        /\ args.max_delay_hours = 400 =>
               Get(SubmittedMetadata, "carbon_max_delay", <<>>) = <<14, 400, 0, 0, 0>>

\* C13: submit_carbon_aware_job always sends one job submission whose
\* metadata carries carbon_aware = true, the zone, the intensity threshold and
\* the max delay; it queries no carbon status and never skips the submission
C13_AlwaysSubmitsAnnotated ==
    op = "submit_carbon_aware_job" =>
        /\ Len(sent) = 1
        /\ sent[1].method = "POST"
        /\ sent[1].path = <<"/jobs/submit">>
        /\ Get(SubmittedMetadata, "carbon_aware", FALSE) = TRUE
        /\ Get(SubmittedMetadata, "carbon_zone", "") = args.carbon_zone
        /\ Get(SubmittedMetadata, "carbon_max_intensity", -1) = args.max_intensity
        /\ Get(SubmittedMetadata, "carbon_max_delay", <<>>)
               = Nanoseconds(args.max_delay_hours)
        /\ \A k \in DOMAIN ToDict(args.job_def) :
               SubmittedJob[k] = ToDict(args.job_def)[k]

\* A carbon-aware submission for another zone and threshold that was accepted
C13_AnnotatedSubmissionAccepted ==
    /\ op = "submit_carbon_aware_job"
    /\ args.carbon_zone = "DE"
    /\ args.max_intensity = 100
    /\ result.kind = "return"
    /\ Get(SubmittedMetadata, "carbon_zone", "") = "DE"

(***************************************************************************)
(* Properties of the carbon-aware backup scripts (specification CarbonSpec)*)
(***************************************************************************)
Submitted == carbon_pc = "done" /\ carbon_status # {}
Annotated == "metadata" \in DOMAIN The(sent[1].json)

\* C14: if optimal_for_backup is true the job is submitted without carbon
\* annotation; otherwise carbon-aware metadata is attached if and only if
\* savings_percent exceeds the action threshold of 30
C14_AnnotatesOnlyWhenWorthDeferring ==
    Submitted =>
        IF The(carbon_status).optimal_for_backup
        THEN ~Annotated
        ELSE Annotated <=> The(carbon_estimate).savings_percent > SavingsThreshold

(***************************************************************************)
(* Properties of the data model (specification ModelSpec)                  *)
(***************************************************************************)
UnknownStatus == wire["status"] \notin Statuses
UnknownFormat ==
    "format" \in DOMAIN wire["definition"] /\ wire["definition"]["format"] \notin ExportFormat

\* C15: decoding a Job whose status or format is outside the enumeration
\* fails with a DecodingError naming the field and the value
C15_UnknownValueIsDecodingError ==
    (codec = "decode_job" /\ (UnknownStatus \/ UnknownFormat)) =>
        /\ decoded.kind = "raise"
        /\ decoded.exc = "DecodingError"
        /\ \/ UnknownFormat /\ decoded.message
                  \in {<<"format", wire["definition"]["format"]>>}
           \/ UnknownStatus /\ decoded.message \in {<<"status", wire["status"]>>}

\* The fields of a JobDefinition that hold a value
PopulatedFields(job_def) ==
    {f \in DOMAIN job_def : f \in OptionalFields => job_def[f] # {}}

\* C16: to_dict followed by decoding yields a definition equal in all
\* populated fields, credentials, options and method included, and every
\* absent optional field is left out of the payload
C16_RoundTripKeepsPopulatedFields ==
    codec = "round_trip" =>
        /\ decoded.kind = "return"
        /\ \A f \in PopulatedFields(The(definition)) :
               decoded.value[f] = The(definition)[f]
        /\ \A f \in OptionalFields :
               The(definition)[f] = {} => f \notin DOMAIN wire

OnlyRequiredSet ==
    codec = "round_trip" /\ \A f \in OptionalFields : The(definition)[f] = {}

\* C17: for a JobDefinition with only required fields set, encode then
\* decode is the identity on the required fields and populates no optional
\* field; the payload names no optional field either
C17_RequiredOnlyRoundTrip ==
    OnlyRequiredSet =>
        /\ decoded.kind = "return"
        /\ \A f \in {"vm_path"} : decoded.value[f] = The(definition)[f]
        /\ \A f \in OptionalFields : decoded.value[f] = {}
        /\ DOMAIN wire \cap OptionalFields = {}

\* The definition JobDefinition(vm_path) went through the round trip
C17_MinimalDefinitionDecoded ==
    /\ codec = "round_trip"
    /\ definition = {JobDefinition(VmPath)}
    /\ decoded = Return(JobDefinition(VmPath))

(***************************************************************************)
(* Properties of the cost comparison (specification CostSpec)              *)
(***************************************************************************)
\* C18: compare returns cheapest equal to a provider of minimum total_cost
\* in the returned list, the estimates in ascending total_cost order, and
\* savings_vs_expensive equal to max(total_cost) - min(total_cost)
C18_CompareSelectsCheapest ==
    comparison # {} =>
        LET c == The(comparison)
            es == c.estimates
            I == DOMAIN es
        IN  /\ \E i \in I : /\ es[i].provider = c.cheapest
                            /\ \A j \in I : es[i].total_cost <= es[j].total_cost
            /\ \A i, j \in I : i < j => es[i].total_cost <= es[j].total_cost
            /\ \E lo, hi \in I :
                   /\ \A j \in I : es[lo].total_cost <= es[j].total_cost
                   /\ \A j \in I : es[j].total_cost <= es[hi].total_cost
                   /\ c.savings_vs_expensive = es[hi].total_cost - es[lo].total_cost

\* A comparison of three providers, the first priced highest, in which the
\* server recommends another provider than the cheapest
C18_ThreeProvidersCompared ==
    /\ comparison # {}
    /\ Len(The(comparison).estimates) = 3
    /\ The(comparison).estimates[3].provider = "s3"
    /\ The(comparison).savings_vs_expensive = 15
    /\ The(comparison).recommended # The(comparison).cheapest

MonthlyTotals ==
    [i \in DOMAIN The(projection).monthly_breakdown |->
        The(projection).monthly_breakdown[i].total_cost]

\* C19: given exactly 12 monthly entries, the quarterly sums are the sums of
\* total_cost over indices 0-2, 3-5, 6-8 and 9-11 (months 1-3, 4-6, 7-9 and
\* 10-12); for 1,1,1, 2,2,2, 3,3,3, 4,4,4 they are 3, 6, 9, 12
C19_QuartersOfTwelveMonths ==
    (projection # {} /\ Len(The(projection).monthly_breakdown) = 12) =>
        LET m == MonthlyTotals
        IN  /\ quarters = {<< m[1] + m[2] + m[3], m[4] + m[5] + m[6],
                              m[7] + m[8] + m[9], m[10] + m[11] + m[12] >>}
            /\ m = ReferenceYear => quarters = {<<3, 6, 9, 12>>}

\* The reference year was projected and summed by quarter
C19_ReferenceYearSummed ==
    /\ projection = {Projection(ReferenceYear)}
    /\ quarters = {<<3, 6, 9, 12>>}
    /\ cost_outcome = Returned(0)

\* C20: a yearly projection whose monthly breakdown has fewer than 12 entries
\* is rejected with a ValidationError and yields no quarterly sums
C20_ShortBreakdownRejected ==
    (projection # {} /\ Len(The(projection).monthly_breakdown) < 12) =>
        /\ quarters = {}
        /\ projection_error = {"ValidationError"}

\* The estimate of the comparison that is the recommended provider's
RecommendedEstimates ==
    { The(comparison).estimates[i] :
        i \in { j \in DOMAIN The(comparison).estimates :
                   The(comparison).estimates[j].provider = The(comparison).recommended } }

\* C21: the follow-up request made for the recommended provider (the yearly
\* projection) carries the storage class of the recommended provider's own
\* estimate, not that of the cheapest estimate
C21_ProjectionUsesRecommendedClass ==
    op = "project_yearly_cost" =>
        /\ The(sent[1].json).provider = The(comparison).recommended
        /\ The(sent[1].json).storage_class
               \in { e.storage_class : e \in RecommendedEstimates }

(***************************************************************************)
(* Properties of a decoded poll in monitor_job (specification ModelSpec)   *)
(***************************************************************************)
\* The payload is a job that ended, its result left out or null
EndedWithoutResult ==
    /\ codec = "reported"
    /\ wire["status"] \in {"completed", "failed"}
    /\ Get(wire, "result", EmptyDict) = EmptyDict
    /\ ~UnknownFormat

\* C22: when a poll returns a job with status completed or failed and no
\* result, decoding succeeds with result absent, and monitor_job produces the
\* final report and returns normally
C22_NoResultIsReported ==
    EndedWithoutResult =>
        /\ decoded.kind = "return"
        /\ decoded.value.result = {}
        /\ decoded.value.status = wire["status"]
        /\ report.outcome = Returned(0)
        /\ Len(report.lines) >= 1
        /\ report.lines[1] = (IF wire["status"] = "completed"
                              THEN <<"Job completed successfully!">>
                              ELSE <<"Job failed!">>)

\* A failed job without result, its error reported
C22_FailedJobReported ==
    /\ EndedWithoutResult
    /\ wire["status"] = "failed"
    /\ "result" \notin DOMAIN wire
    /\ report.lines = << <<"Job failed!">>, <<"Error", "disk full">> >>

(***************************************************************************)
(* Properties of the monitoring loops, continued (specification Spec)      *)
(***************************************************************************)
\* C23: a monitoring session ended by operator cancellation exits with the
\* success outcome, a best-effort cancel having been sent, not with a
\* failure outcome
C23_InterruptedSessionSucceeds ==
    endedBy = "interrupt" => (outcome = Returned(0) /\ cancels = 1)

\* The steps of the job state machine
Transitions ==
    { <<"pending", "running">>, <<"running", "completed">>, <<"running", "failed">>,
      <<"pending", "cancelled">>, <<"running", "cancelled">> }

\* C24: across the successive polls of one job, the locally recorded status
\* only stays the same or takes one of the steps pending -> running,
\* running -> completed, running -> failed, pending -> cancelled,
\* running -> cancelled; a terminal status, once recorded, never changes
C24_StatusFollowsStateMachine ==
    prevJob # {} =>
        /\ \/ The(job).status = The(prevJob).status
           \/ <<The(prevJob).status, The(job).status>> \in Transitions
        /\ The(prevJob).status \in Terminal => The(job).status = The(prevJob).status

\* C25: the monitor never modifies a field of its local Job copy: the copy
\* is always the value the latest successful poll returned, and it changes
\* only in a successful poll, which replaces it as a whole, also when the
\* poll's output is suppressed
C25_CopyReplacedWholesale ==
    /\ job = polled
    /\ lastPoll = "ok" => job # {}
    /\ polls = 0 => job = {}

\* A poll whose output was suppressed replaced the copy with a different value
C25_SilentPollReplacedCopy ==
    /\ lastPoll = "ok"
    /\ ~emitted
    /\ prevJob # {}
    /\ job # prevJob
    /\ job = polled

(***************************************************************************)
(* Properties of the multi-job monitor (specification MultiSpec)           *)
(***************************************************************************)
\* The latest iteration fetched the job set
Fetched == ticks > 0 /\ fetched # {}
RunningListed == {i \in DOMAIN The(fetched) : The(fetched)[i].status = "running"}
NonTerminalListed == \E i \in DOMAIN The(fetched) : The(fetched)[i].status \in {"pending", "running"}

\* C26: the multi-job monitor keeps ticking while at least one job is
\* non-terminal (pending or running); each tick fetches the full job set
\* exactly once and renders exactly the jobs whose status is running
C26_TicksWhileNonTerminal ==
    Fetched =>
        /\ NonTerminalListed => multi_pc \in {"sleep", "fetch"} \/ multi_outcome = Returned(0)
        /\ Len(sent) = 1
        /\ Len(rendered) = Cardinality(RunningListed)
        /\ {rendered[i].job_id : i \in DOMAIN rendered}
               = {The(The(fetched)[i].definition.id) : i \in RunningListed}

(***************************************************************************)
(* Properties of the client, continued (specification ClientSpec)          *)
(***************************************************************************)
Estimated == op = "estimate_carbon_savings" /\ result.kind = "return"

\* C27: estimateSavings returns savings_percent = 0 (no error) whenever
\* current_emissions is 0; otherwise savings_percent =
\* (current_emissions - best_emissions) / current_emissions x 100
C27_SavingsPercentGuarded ==
    Estimated =>
        LET e == result.value
        IN  IF e.current_emissions_kg_co2 = 0
            THEN e.savings_percent = 0
            ELSE e.savings_percent * e.current_emissions_kg_co2
                     = (e.current_emissions_kg_co2 - e.best_emissions_kg_co2) * 100

\* An estimate for a grid that emits nothing now but would later
C27_NothingEmittedNow ==
    /\ Estimated
    /\ result.value.current_emissions_kg_co2 = 0
    /\ result.value.best_emissions_kg_co2 = 50
    /\ result.value.savings_percent = 0

\* C28: whenever the submit response has accepted = 0, submit_job and
\* submit_carbon_aware_job raise APIError and no other exception kind, for
\* every shape of the errors field: missing, an empty list, a non-empty list
C28_RejectionIsAlwaysAPIError ==
    Rejected => (result.kind = "raise" /\ result.exc = "APIError")

\* C30: submit_carbon_aware_job leaves the caller's JobDefinition unchanged:
\* the carbon metadata is added only to the submitted payload, so a later plain
\* submit of the same definition carries no carbon annotation
C30_CallerDefinitionUntouched ==
    [][ /\ op' = "submit_carbon_aware_job" =>
               /\ job_def_after' = {args'.job_def}
               /\ "metadata" \in DOMAIN The(sent'[1].json)
        /\ (op = "submit_carbon_aware_job" /\ op' = "submit_job"
                /\ args'.job_def \in job_def_after) =>
               /\ sent'[1].json = {ToDict(args.job_def)}
               /\ "metadata" \notin DOMAIN The(sent'[1].json) ]_vars

\* An annotated submission of a named definition was accepted
C30_AnnotatedNamedDefinition ==
    /\ op = "submit_carbon_aware_job"
    /\ result.kind = "return"
    /\ args.job_def.name # {}
    /\ job_def_after = {args.job_def}
    /\ The(sent[1].json).metadata.carbon_aware = TRUE

(***************************************************************************)
(* Properties of a client session (specification AuthSpec)                 *)
(***************************************************************************)
\* C29: the session token changes only on a successful login (set to the
\* returned token) or a successful logout (cleared); a failed login or logout
\* leaves it unchanged, and every request issued while a token is held carries
\* it as the Bearer Authorization header
C29_TokenFollowsLoginAndLogout ==
    [][ /\ token' # token =>
               \/ op' = "login" /\ result'.kind = "return"
               \/ op' = "logout" /\ result'.kind = "return"
        /\ (op' = "login" /\ result'.kind = "return") => token' = result'.value
        /\ (op' = "logout" /\ result'.kind = "return") => token' = {}
        /\ (op' \in {"login", "logout"} /\ result'.kind = "raise") => token' = token
        /\ (token # {} /\ token # {""}) =>
               headers' = ("Authorization" :> <<"Bearer", The(token)>>) ]_vars

\* A logout that failed while a token was held: sent with the token, which is kept
C29_FailedLogoutKeepsToken ==
    /\ op = "logout"
    /\ result.kind = "raise"
    /\ token = {"tok-1"}
    /\ headers = ("Authorization" :> <<"Bearer", "tok-1">>)

====
